---- MODULE Spec2Model ----
(***************************************************************************)
(* A model of anyrouter_auto: the OAuth callback listener (auth.py), the   *)
(* token lifecycle (auth.py, credentials.py, __main__.py), the daily       *)
(* scheduler (scheduler.py) and the commands (__main__.py).  The           *)
(* specifications share one Init: Spec (the callback listener), TokenSpec, *)
(* StoreSpec (the credential store on its own), SchedSpec and CmdSpec;     *)
(* each action leaves the variables of the other subsystems unchanged.     *)
(***************************************************************************)
EXTENDS Integers, Sequences, FiniteSets, TLC

VARIABLES
    \* ---- callback listener (auth.py) ----
    wfc_pc,          \* position of the caller of wait_for_callback
    expected_state,  \* CallbackHandler.expected_state (class attribute)
    event,           \* CallbackHandler.event: "none" | "clear" | "set"
    result,          \* CallbackHandler.result (class attribute)
    self_result,     \* self.result of the handler instance that served the request
    server,          \* the HTTPServer socket: "unbound" | "open" | "closed"
    thread,          \* the thread running server.handle_request
    backlog,         \* connections accepted by the kernel, not yet served
    replies,         \* <<request, status>> of every request served, in order
    elapsed,         \* time spent in event.wait, in ticks
    wfc_ret,         \* the value wait_for_callback returned
    \* ---- token lifecycle (auth.py, credentials.py, __main__.py) ----
    time,            \* time.time()
    passphrase,      \* CredentialStore._passphrase
    cred_file,       \* the credentials file
    last,            \* the last operation of the token lifecycle and its outcome
    \* ---- scheduler (scheduler.py) ----
    now,             \* dt.datetime.now(), in minutes since day 0, 00:00
    schedule_file,   \* the schedule-state file
    stop_event,      \* DailyScheduler._stop_event
    loop_pc,         \* position of the thread running _run_loop
    state,           \* the local `state` of _run_loop
    target,          \* the local `target` of _run_loop
    remaining,       \* what is left of wait_seconds on the timer of _stop_event.wait
    ctl_pc,          \* position of the controlling thread (start/stop callers)
    fires,           \* job invocations on the local calendar day of the latest one
    last_fire,       \* the local calendar day of the latest job invocation
    threads,         \* the threads running _run_loop that are alive
    last_call,       \* the latest call of the controlling thread: start or stop
    config           \* DailyScheduler._config: the configured hour and minute

lvars == <<wfc_pc, expected_state, event, result, self_result, server, thread,
           backlog, replies, elapsed, wfc_ret>>
tvars == <<time, passphrase, cred_file, last>>
svars == <<now, schedule_file, stop_event, loop_pc, state, target, remaining,
           ctl_pc, fires, last_fire, threads, last_call, config>>
vars == <<lvars, tvars, svars>>

None == "None"      \* Python's None
Absent == "Absent"  \* a key that a mapping does not hold, a file that does not exist

(***************************************************************************)
(*                         THE CALLBACK LISTENER                           *)
(***************************************************************************)

\* Bounds of the listener model.
MaxRequests == 2    \* requests that reach the port during one wait
TimeoutTicks == 2   \* the timeout of wait_for_callback, in clock ticks

Paths == {"/callback", "/other"}
Codes == {"c1"}
\* generate_state returns secrets.token_urlsafe(16): never the empty string.
States == {"s1", "s2"}
\* A query parameter as sent: not sent, sent blank ("code="), or sent with a value.
RawCodes == {Absent, ""} \cup Codes
RawStates == {Absent, ""} \cup States
Requests == [path : Paths, code : RawCodes, state : RawStates]

HTTP_OK == 200
HTTP_BAD_REQUEST == 400
HTTP_UNAUTHORIZED == 401
HTTP_NOT_FOUND == 404

generate_state == States

\* urllib.parse.parse_qs drops blank values (keep_blank_values=False), and
\* params.get(k, [None])[0] is None for a key that is not there.
parse_qs_get(raw) == IF raw = Absent \/ raw = "" THEN None ELSE raw

\* `not x` for an Optional[str]
Falsy(x) == x = None \/ x = ""

\* The state check of do_GET, line 48; and the check left out.
StateMismatchNoCheck(exp, st) == FALSE
StateMismatch(exp, st) == ~Falsy(exp) /\ st # exp

\* do_GET on one request: the status sent, whether the event is set, and the
\* AuthorizationResult stored.  The result is assigned to self.result: an
\* attribute of the handler instance, not of the class.
do_GET_status(req) ==
    LET code == parse_qs_get(req.code)
        st == parse_qs_get(req.state)
    IN  IF req.path # "/callback" THEN HTTP_NOT_FOUND
        ELSE IF Falsy(code) \/ Falsy(st) THEN HTTP_BAD_REQUEST
        ELSE IF StateMismatch(expected_state, st) THEN HTTP_UNAUTHORIZED
        ELSE HTTP_OK

\* The value that stands for None where an AuthorizationResult or None is held.
NoResult == [code |-> None, state |-> None, received_at |-> -1]

AuthorizationResult(req, at) ==
    [code |-> parse_qs_get(req.code), state |-> parse_qs_get(req.state),
     received_at |-> at]

\* wait_for_callback, lines 88-93: the event and the class attributes are set,
\* the server is bound and the listener thread started.
wait_for_callback_begin(S) ==
    /\ wfc_pc = "idle"
    /\ wfc_pc' = "waiting"
    /\ expected_state' = S
    /\ event' = "clear"
    /\ server' = "open"
    /\ thread' = "listening"
    /\ elapsed' = 0
    /\ UNCHANGED <<result, self_result, backlog, replies, wfc_ret>>
    /\ UNCHANGED <<tvars, svars>>

\* A client connects to the bound port and sends a GET.
Connect(req) ==
    /\ server = "open"
    /\ Len(backlog) + Len(replies) < MaxRequests
    /\ backlog' = Append(backlog, req)
    /\ UNCHANGED <<wfc_pc, expected_state, event, result, self_result, server,
                   thread, replies, elapsed, wfc_ret>>
    /\ UNCHANGED <<tvars, svars>>

\* The listener thread: server.handle_request serves one request (do_GET) and
\* returns, whatever the status sent; the thread then ends.
handle_request ==
    /\ thread = "listening"
    /\ server = "open"
    /\ backlog # <<>>
    /\ LET req == Head(backlog)
           status == do_GET_status(req)
       IN  /\ replies' = Append(replies, <<req, status>>)
           /\ IF status = HTTP_OK
              THEN /\ self_result' = AuthorizationResult(req, elapsed)
                   /\ event' = IF event = "none" THEN event ELSE "set"
              ELSE UNCHANGED <<self_result, event>>
    /\ backlog' = Tail(backlog)
    /\ thread' = "exited"
    /\ UNCHANGED <<wfc_pc, expected_state, result, server, elapsed, wfc_ret>>
    /\ UNCHANGED <<tvars, svars>>

\* The clock of event.wait(timeout).
WaitTick ==
    /\ wfc_pc = "waiting"
    /\ elapsed < TimeoutTicks
    /\ elapsed' = elapsed + 1
    /\ UNCHANGED <<wfc_pc, expected_state, event, result, self_result, server,
                   thread, backlog, replies, wfc_ret>>
    /\ UNCHANGED <<tvars, svars>>

\* wait_for_callback_end with the server closed only when the event was set.
wait_for_callback_leak ==
    /\ wfc_pc = "waiting"
    /\ event = "set" \/ elapsed = TimeoutTicks
    /\ LET finished == event = "set"
       IN  IF ~finished \/ result = NoResult
           THEN /\ wfc_pc' = "raised"
                /\ server' = IF finished THEN "closed" ELSE server
                /\ UNCHANGED <<result, wfc_ret>>
           ELSE /\ wfc_pc' = "returned"
                /\ server' = "closed"
                /\ wfc_ret' = result
                /\ result' = NoResult
    /\ UNCHANGED <<expected_state, event, self_result, thread, backlog, replies,
                   elapsed>>
    /\ UNCHANGED <<tvars, svars>>

\* wait_for_callback_end with a wait that has no timeout.
wait_for_callback_hang ==
    /\ wfc_pc = "waiting"
    /\ event = "set"
    /\ LET finished == event = "set"
       IN  /\ server' = "closed"
           /\ IF ~finished \/ result = NoResult
              THEN /\ wfc_pc' = "raised"
                   /\ UNCHANGED <<result, wfc_ret>>
              ELSE /\ wfc_pc' = "returned"
                   /\ wfc_ret' = result
                   /\ result' = NoResult
    /\ UNCHANGED <<expected_state, event, self_result, thread, backlog, replies,
                   elapsed>>
    /\ UNCHANGED <<tvars, svars>>

\* wait_for_callback, lines 94-100: event.wait returns (the event was set, or the
\* timeout elapsed), the server is closed, then TimeoutError or the result.
wait_for_callback_end ==
    /\ wfc_pc = "waiting"
    /\ event = "set" \/ elapsed = TimeoutTicks
    /\ LET finished == event = "set"
       IN  /\ server' = "closed"
           /\ IF ~finished \/ result = NoResult
              THEN /\ wfc_pc' = "raised"
                   /\ UNCHANGED <<result, wfc_ret>>
              ELSE /\ wfc_pc' = "returned"
                   /\ wfc_ret' = result
                   /\ result' = NoResult
    /\ UNCHANGED <<expected_state, event, self_result, thread, backlog, replies,
                   elapsed>>
    /\ UNCHANGED <<tvars, svars>>

ListenerInit ==
    /\ wfc_pc = "idle"
    /\ expected_state = None
    /\ event = "none"
    /\ result = NoResult
    /\ self_result = NoResult
    /\ server = "unbound"
    /\ thread = "none"
    /\ backlog = <<>>
    /\ replies = <<>>
    /\ elapsed = 0
    /\ wfc_ret = NoResult

ListenerNext ==
    \/ \E S \in generate_state : wait_for_callback_begin(S)
    \/ \E req \in Requests : Connect(req)
    \/ handle_request
    \/ WaitTick
    \/ wait_for_callback_end

(***************************************************************************)
(*                          THE TOKEN LIFECYCLE                            *)
(***************************************************************************)

\* Bounds of the token model.
MaxTime == 1            \* time.time() runs over 0..MaxTime
MaxExpiresIn == 1       \* the largest expires_in the token endpoint answers

RefreshTokens == {"r1"}
Scopes == {"read:user"}
Passphrases == {"", "p1"}
CLIENT_ID == "client"   \* OAuthConfig.client_id

\* An optional number (expires_in, expires_at): None, a number, or (expires_in
\* only) a string that is not a number.
NoneNum == [t |-> "none", v |-> 0]
Num(n) == [t |-> "num", v |-> n]
NonNumeric == [t |-> "str", v |-> 0]

\* What the token endpoint may answer: no answer (urlopen raises), a body that is
\* not JSON, or a JSON object whose fields are of their documented types;
\* expires_in is missing, a number (negative and zero included) or a non-numeric
\* string.  The endpoint issues a new access token on every grant: IssuedBy(g)
\* is the token issued for grant type g.
ExpiresIns == {NoneNum, NonNumeric} \cup {Num(n) : n \in -1 .. MaxExpiresIn}
IssuedBy(grant) == IF grant = "authorization_code" THEN "a1" ELSE "a2"
NoAnswer(k) ==
    [kind |-> k, access_token |-> Absent, refresh_token |-> Absent,
     expires_in |-> NoneNum, scope |-> Absent]
Responses(grant) ==
    [kind : {"json"}, access_token : {Absent, IssuedBy(grant)},
     refresh_token : {Absent} \cup RefreshTokens, expires_in : ExpiresIns,
     scope : {Absent} \cup Scopes]
    \cup {NoAnswer("error"), NoAnswer("garbage")}

Fields == {"access_token", "refresh_token", "expires_at", "scope", "client_id"}
NoneOf(f) == IF f = "expires_at" THEN NoneNum ELSE None
\* The value that stands for "no record" where a record or None is held.
NoRecord == [f \in Fields |-> NoneOf(f)]

\* dict.get(key) and dict.get(key, default) on the decoded response.
Get(data, k) == IF data[k] = Absent THEN None ELSE data[k]
GetDefault(data, k, default) == IF data[k] = Absent THEN default ELSE data[k]

\* The truth value of `expires_in` in `... if expires_in else None`: None and 0
\* are false, a non-zero number and a non-empty string are true.
Truthy(x) == x.t = "str" \/ (x.t = "num" /\ x.v # 0)

\* float(expires_in) raises ValueError on a non-numeric string.
IsNumeric(x) == x.t = "num"

\* is_expired with a strict comparison.
is_expired_strict(record, t) == record.expires_at.t = "num" /\ t > record.expires_at.v
\* CredentialRecord.is_expired at time t.
is_expired(record, t) == record.expires_at.t = "num" /\ t >= record.expires_at.v

\* CredentialRecord.to_payload: asdict without the fields that are None.
to_payload(record) == [k \in {f \in Fields : record[f] # NoneOf(f)} |-> record[k]]

\* CredentialRecord.from_payload: payload["access_token"] raises KeyError when
\* the key is missing; the other fields are payload.get(...).
PayloadGet(payload, k) == IF k \in DOMAIN payload THEN payload[k] ELSE NoneOf(k)
from_payload(payload) ==
    IF "access_token" \notin DOMAIN payload
    THEN [tag |-> "KeyError", rec |-> NoRecord]
    ELSE [tag |-> "record", rec |-> [k \in Fields |-> PayloadGet(payload, k)]]

\* json.dumps of a payload: a JSON document holding it.
json_dumps(payload) == [kind |-> "json", value |-> payload]

\* _derive_key: the keystream of a passphrase.  Bytes are modelled as a text
\* XOR-ed with a set of keystreams: XOR-ing the same keystream twice cancels.
_derive_key(p) == {p}
Xor(mask, key) == (mask \ key) \cup (key \ mask)

\* The credentials file: whether it exists, and the bytes it holds.
FileBytes(text, mask) == [exists |-> TRUE, text |-> text, mask |-> mask]
NoFile == [exists |-> FALSE, text |-> json_dumps(to_payload(NoRecord)), mask |-> {}]

\* _encode that uses the key of the empty passphrase for every passphrase.
_encode_fixed_key(text, p) == FileBytes(text, {})
\* CredentialStore._encode and _decode under passphrase p.
_encode(text, p) ==
    IF p = "" THEN FileBytes(text, {})
    ELSE FileBytes(text, Xor({}, _derive_key(p)))
\* bytes.decode("utf-8") of a buffer still masked by a keystream raises
\* UnicodeDecodeError.
_decode(data, p) ==
    LET buffer == IF p = "" THEN data
                  ELSE FileBytes(data.text, Xor(data.mask, _derive_key(p)))
    IN  IF buffer.mask = {} THEN [tag |-> "text", text |-> buffer.text]
        ELSE [tag |-> "UnicodeDecodeError", text |-> buffer.text]

\* CredentialStore.load: [tag, rec]; tag is "none" for a missing file or a
\* JSONDecodeError, "record" for a record, and the exception that propagates
\* out of _decode or from_payload otherwise (payload["access_token"] raises
\* TypeError on JSON that is no object).
load(file, p) ==
    IF ~file.exists THEN [tag |-> "none", rec |-> NoRecord]
    ELSE LET payload == _decode(file, p)
         IN  IF payload.tag # "text" THEN [tag |-> payload.tag, rec |-> NoRecord]
             ELSE IF payload.text.kind = "garbage" THEN [tag |-> "none", rec |-> NoRecord]
             ELSE IF payload.text.kind = "not_object"
             THEN [tag |-> "TypeError", rec |-> NoRecord]
             ELSE from_payload(payload.text.value)

\* CredentialStore.save: the new content of the credentials file; and a save
\* that writes nothing.
save_nothing(record, p) == cred_file
save(record, p) == _encode(json_dumps(to_payload(record)), p)

\* expires_at as exchange_code (line 118) and refresh (line 149) compute it.
expires_at_of(expires_in, t) ==
    IF Truthy(expires_in) THEN Num(t + expires_in.v) ELSE NoneNum

\* refresh that takes refresh_token and scope from the response alone.
refresh_overwriting(record, resp, t, file, p) ==
    LET expires_in == resp.expires_in
        r148 == [record EXCEPT
                   !.access_token = resp.access_token,
                   !.refresh_token = Get(resp, "refresh_token")]
        r150 == [r148 EXCEPT
                   !.expires_at = expires_at_of(expires_in, t),
                   !.scope = Get(resp, "scope")]
        failed(e, asked, mem) ==
            [raised |-> TRUE, error |-> e, asked |-> asked, ret |-> NoRecord,
             mem |-> mem, file |-> file]
    IN  IF Falsy(record.refresh_token) THEN failed("RuntimeError", FALSE, record)
        ELSE IF resp.kind # "json" THEN failed("URLError", TRUE, record)
        ELSE IF resp.access_token = Absent THEN failed("KeyError", TRUE, record)
        ELSE IF Truthy(expires_in) /\ ~IsNumeric(expires_in)
        THEN failed("ValueError", TRUE, r148)
        ELSE [raised |-> FALSE, error |-> "none", asked |-> TRUE, ret |-> r150,
              mem |-> r150, file |-> save(r150, p)]

\* refresh without the check of the refresh token (lines 131-132).
refresh_unchecked(record, resp, t, file, p) ==
    LET expires_in == resp.expires_in
        r148 == [record EXCEPT
                   !.access_token = resp.access_token,
                   !.refresh_token = GetDefault(resp, "refresh_token", record.refresh_token)]
        r150 == [r148 EXCEPT
                   !.expires_at = expires_at_of(expires_in, t),
                   !.scope = GetDefault(resp, "scope", record.scope)]
        failed(e, mem) ==
            [raised |-> TRUE, error |-> e, asked |-> TRUE, ret |-> NoRecord,
             mem |-> mem, file |-> file]
    IN  IF resp.kind # "json" THEN failed("URLError", record)
        ELSE IF resp.access_token = Absent THEN failed("KeyError", record)
        ELSE IF Truthy(expires_in) /\ ~IsNumeric(expires_in)
        THEN failed("ValueError", r148)
        ELSE [raised |-> FALSE, error |-> "none", asked |-> TRUE, ret |-> r150,
              mem |-> r150, file |-> save(r150, p)]

\* The exception a response that is no JSON object raises: urlopen (line 114),
\* json.loads (line 116), or data.get on a value that is no dict (line 117).
ResponseError(resp) ==
    IF resp.kind = "error" THEN "URLError"
    ELSE IF resp.kind = "garbage" THEN "JSONDecodeError"
    ELSE "AttributeError"

\* AuthorizationFlow.exchange_code: [raised, error, ret, file].
exchange_code(resp, t, file, p) ==
    LET failed(e) == [raised |-> TRUE, error |-> e, ret |-> NoRecord, file |-> file]
        expires_in == resp.expires_in
        record == [access_token |-> resp.access_token,
                   refresh_token |-> Get(resp, "refresh_token"),
                   expires_at |-> expires_at_of(expires_in, t),
                   scope |-> Get(resp, "scope"),
                   client_id |-> CLIENT_ID]
    IN  IF resp.kind # "json" THEN failed(ResponseError(resp))
        ELSE IF Truthy(expires_in) /\ ~IsNumeric(expires_in) THEN failed("ValueError")
        ELSE IF resp.access_token = Absent THEN failed("KeyError")
        ELSE [raised |-> FALSE, error |-> "none", ret |-> record,
              file |-> save(record, p)]

\* AuthorizationFlow.refresh: [raised, error, asked, ret, mem, file]; asked is
\* whether the token endpoint was sent a request, mem is the record object
\* passed in, as the call leaves it (lines 147-150 assign its fields in order).
refresh(record, resp, t, file, p) ==
    LET expires_in == resp.expires_in
        r148 == [record EXCEPT
                   !.access_token = resp.access_token,
                   !.refresh_token = GetDefault(resp, "refresh_token", record.refresh_token)]
        r150 == [r148 EXCEPT
                   !.expires_at = expires_at_of(expires_in, t),
                   !.scope = GetDefault(resp, "scope", record.scope)]
        failed(e, asked, mem) ==
            [raised |-> TRUE, error |-> e, asked |-> asked, ret |-> NoRecord,
             mem |-> mem, file |-> file]
    IN  IF Falsy(record.refresh_token) THEN failed("RuntimeError", FALSE, record)
        ELSE IF resp.kind # "json" THEN failed(ResponseError(resp), TRUE, record)
        ELSE IF resp.access_token = Absent THEN failed("KeyError", TRUE, record)
        ELSE IF Truthy(expires_in) /\ ~IsNumeric(expires_in)
        THEN failed("ValueError", TRUE, r148)
        ELSE [raised |-> FALSE, error |-> "none", asked |-> TRUE, ret |-> r150,
              mem |-> r150, file |-> save(r150, p)]

\* What `last` records of an operation: the endpoint's answer, whether the
\* operation raised, the record returned, whether refresh was called and the
\* record object passed to refresh as the call left it; and, set by the
\* operations they apply to: the exception raised, whether the token endpoint
\* was sent a request, whether the content of the credentials file changed, and
\* the record passed to refresh as it was loaded; and of a command: the client
\* id it found, its exit status, whether it sent the sign-in request and
\* whether it started the scheduler; of cmd_status, what is_expired yielded; of
\* a save, the record load() yielded before it.
Outcome(op, resp, raised, ret, refreshed, mem) ==
    [op |-> op, resp |-> resp, raised |-> raised, ret |-> ret,
     refreshed |-> refreshed, mem |-> mem,
     error |-> "none", asked |-> FALSE, changed |-> FALSE, arg |-> NoRecord,
     client_id |-> CLIENT_ID, exit |-> 0, signed_in |-> FALSE, started |-> FALSE,
     expired |-> FALSE, before |-> NoRecord]
NoOp(op) == Outcome(op, NoAnswer("error"), FALSE, NoRecord, FALSE, NoRecord)

\* cmd_authorize, line 89: flow.exchange_code(result).
ExchangeCode(resp) ==
    LET r == exchange_code(resp, time, cred_file, passphrase)
    IN  /\ UNCHANGED <<lvars, svars>>
        /\ cred_file' = r.file
        /\ last' = [Outcome("exchange_code", resp, r.raised, r.ret, FALSE, NoRecord)
                        EXCEPT !.error = r.error, !.asked = TRUE,
                               !.changed = r.file # cred_file]
        /\ UNCHANGED <<time, passphrase>>

\* _ensure_credentials without the expiry check.
_ensure_credentials_unchecked(resp) ==
    LET loaded == load(cred_file, passphrase)
    IN  /\ UNCHANGED <<lvars, svars>>
        /\ last' = Outcome("_ensure_credentials", resp, loaded.tag # "record",
                           loaded.rec, FALSE, NoRecord)
        /\ UNCHANGED <<time, passphrase, cred_file>>

\* _ensure_credentials(store, flow): load, fail when there is no record, refresh
\* when expired; [out, file], the outcome and the credentials file it leaves.
\* resp is what the token endpoint answers if it is asked.
ensure_credentials(resp) ==
    LET loaded == load(cred_file, passphrase)
        record == loaded.rec
        r == refresh(record, resp, time, cred_file, passphrase)
    IN  IF loaded.tag # "record"
        THEN [out |-> [Outcome("_ensure_credentials", resp, TRUE, NoRecord,
                               FALSE, NoRecord)
                          EXCEPT !.error = IF loaded.tag = "none"
                                           THEN "RuntimeError" ELSE loaded.tag],
              file |-> cred_file]
        ELSE IF is_expired(record, time)
        THEN [out |-> [Outcome("_ensure_credentials", resp, r.raised, r.ret,
                               TRUE, r.mem)
                          EXCEPT !.error = r.error, !.asked = r.asked,
                                 !.changed = r.file # cred_file,
                                 !.arg = record],
              file |-> r.file]
        ELSE [out |-> Outcome("_ensure_credentials", resp, FALSE, record,
                              FALSE, NoRecord),
              file |-> cred_file]

\* A caller of _ensure_credentials runs it.
_ensure_credentials(resp) ==
    LET e == ensure_credentials(resp)
    IN  /\ UNCHANGED <<lvars, svars, time, passphrase>>
        /\ cred_file' = e.file
        /\ last' = e.out

\* CredentialStore.clear.
clear ==
    /\ cred_file' = NoFile
    /\ last' = NoOp("clear")
    /\ UNCHANGED <<time, passphrase>>
    /\ UNCHANGED <<lvars, svars>>

\* time.time() advances between commands.
TimePasses ==
    /\ time < MaxTime
    /\ time' = time + 1
    /\ last' = NoOp("time")
    /\ UNCHANGED <<passphrase, cred_file>>
    /\ UNCHANGED <<lvars, svars>>

\* A later command is run with another --passphrase (_load_store).
_load_store(p) ==
    /\ p # passphrase
    /\ passphrase' = p
    /\ last' = NoOp("_load_store")
    /\ UNCHANGED <<time, cred_file>>
    /\ UNCHANGED <<lvars, svars>>

TokenInit ==
    /\ time = 0
    /\ passphrase = ""
    /\ cred_file = NoFile
    /\ last = NoOp("init")

TokenNext ==
    \/ \E resp \in Responses("authorization_code") : ExchangeCode(resp)
    \/ \E resp \in Responses("refresh_token") : _ensure_credentials(resp)
    \/ clear
    \/ TimePasses
    \/ \E p \in Passphrases : _load_store(p)

\* ---- the credential store on its own ----

\* The records the store is given to save.
Records ==
    [access_token : {IssuedBy("authorization_code")},
     refresh_token : {None} \cup RefreshTokens,
     expires_at : {NoneNum} \cup {Num(n) : n \in 0 .. MaxTime},
     scope : {None} \cup Scopes,
     client_id : {None, CLIENT_ID}]

\* What the credentials file may hold that save did not write: bytes that are
\* not UTF-8, text that is not JSON, JSON that is no object, and an object with
\* no access_token.
FileContents ==
    {FileBytes(json_dumps(to_payload(NoRecord)), {"noise"}),
     FileBytes([kind |-> "garbage", value |-> to_payload(NoRecord)], {}),
     FileBytes([kind |-> "not_object", value |-> to_payload(NoRecord)], {}),
     FileBytes(json_dumps(to_payload(NoRecord)), {}),
     FileBytes(json_dumps(to_payload([NoRecord EXCEPT !.client_id = CLIENT_ID])), {})}

\* store.save(record).
Save(record) ==
    /\ cred_file' = save(record, passphrase)
    /\ last' = [NoOp("save") EXCEPT !.ret = record,
                                    !.changed = cred_file' # cred_file,
                                    !.before = load(cred_file, passphrase).rec]
    /\ UNCHANGED <<time, passphrase>>
    /\ UNCHANGED <<lvars, svars>>

\* The credentials file is written by something else than save.
WriteFile(content) ==
    /\ cred_file' = content
    /\ last' = NoOp("write")
    /\ UNCHANGED <<time, passphrase>>
    /\ UNCHANGED <<lvars, svars>>

\* cmd_status: store.load(), then record.is_expired when there is a record.
cmd_status ==
    LET loaded == load(cred_file, passphrase)
    IN  /\ last' = [NoOp("cmd_status") EXCEPT
                       !.raised = loaded.tag \notin {"none", "record"},
                       !.error = IF loaded.tag \in {"none", "record"}
                                 THEN "none" ELSE loaded.tag,
                       !.ret = loaded.rec,
                       !.expired = loaded.tag = "record"
                                      /\ is_expired(loaded.rec, time)]
        /\ UNCHANGED <<time, passphrase, cred_file>>
        /\ UNCHANGED <<lvars, svars>>

StoreNext ==
    \/ \E record \in Records : Save(record)
    \/ \E content \in FileContents : WriteFile(content)
    \/ cmd_status
    \/ clear
    \/ TimePasses
    \/ \E p \in Passphrases : _load_store(p)

(***************************************************************************)
(*                            THE SCHEDULER                                *)
(***************************************************************************)

\* Bounds of the scheduler model: a scaled-down calendar and a horizon.
HoursPerDay == 2        \* hours of a day (24)
MinutesPerHour == 2     \* minutes of an hour (60)
NumDays == 2            \* local calendar days the clock runs over
MaxJump == 2            \* the largest single step of the wall clock, in minutes

DayLen == HoursPerDay * MinutesPerHour
Horizon == NumDays * DayLen - 1
Day(t) == t \div DayLen

\* ScheduleConfig: the configured hour and minute.
\* The configurations the scheduler is run with: the default, and an hour and a
\* minute set in the environment (ScheduleConfig.from_env).
ScheduleConfigs == {[hour |-> HoursPerDay - 1, minute |-> 0], [hour |-> 0, minute |-> 1]}
\* ScheduleConfig(): DEFAULT_SCHEDULE_HOUR on the scaled-down day, minute 0.
DefaultConfig == [hour |-> HoursPerDay - 1, minute |-> 0]

ScheduleState(hour, minute, last_run) ==
    [hour |-> hour, minute |-> minute, last_run |-> last_run]
\* The schedule file: absent, or a text that is a JSON object with an hour and
\* a minute ("json"), no JSON at all ("garbage"), or a JSON object without the
\* key "hour" ("no_hour").
NoScheduleFile ==
    [exists |-> FALSE, kind |-> "json", payload |-> ScheduleState(0, 0, NoneNum)]
UndecodableFile(kind) ==
    [exists |-> TRUE, kind |-> kind, payload |-> ScheduleState(0, 0, NoneNum)]

\* The hours and minutes the environment may configure (ScheduleConfig.from_env
\* converts with int and checks no range): those of ScheduleConfigs, an hour
\* past the last hour of the day, a minute past the last minute of the hour.
EnvConfigs ==
    ScheduleConfigs \cup {[hour |-> HoursPerDay, minute |-> 0],
                          [hour |-> 0, minute |-> MinutesPerHour]}

\* What a schedule file left on the disk may hold: an undecodable text, a state
\* saved under another configuration, a state with an hour out of range.
ScheduleFiles ==
    {UndecodableFile("garbage"), UndecodableFile("no_hour"),
     [exists |-> TRUE, kind |-> "json", payload |-> ScheduleState(0, 0, NoneNum)],
     [exists |-> TRUE, kind |-> "json",
      payload |-> ScheduleState(HoursPerDay, 0, NoneNum)]}

\* A load_state that takes whatever the file holds.
load_state_unguarded(file) ==
    IF ~file.exists THEN ScheduleState(config.hour, config.minute, NoneNum)
    ELSE ScheduleState(file.payload.hour, file.payload.minute, file.payload.last_run)

\* DailyScheduler.load_state: the persisted state; the configured defaults when
\* there is no file or when reading, json.loads or from_payload raises.
load_state(file) ==
    IF ~file.exists THEN ScheduleState(config.hour, config.minute, NoneNum)
    ELSE IF file.kind # "json"
         THEN ScheduleState(config.hour, config.minute, NoneNum)
         ELSE ScheduleState(file.payload.hour, file.payload.minute,
                            file.payload.last_run)

\* A save_state that writes the configured hour and minute.
save_state_configured(st) ==
    [exists |-> TRUE, kind |-> "json",
     payload |-> ScheduleState(DefaultConfig.hour, DefaultConfig.minute, st.last_run)]

\* DailyScheduler.save_state: the new content of the schedule file.
save_state(st) == [exists |-> TRUE, kind |-> "json", payload |-> st]

\* datetime.replace accepts an hour in 0..23 and a minute in 0..59.
InRange(st) ==
    /\ st.hour \in 0 .. HoursPerDay - 1
    /\ st.minute \in 0 .. MinutesPerHour - 1

\* A target that may be now itself.
next_target_inclusive(st, t) ==
    LET today == Day(t) * DayLen + st.hour * MinutesPerHour + st.minute
    IN  IF today < t THEN today + DayLen ELSE today

\* _run_loop, lines 82-85: today at hour:minute, or the next day when that is
\* not strictly after now.
next_target(st, t) ==
    LET today == Day(t) * DayLen + st.hour * MinutesPerHour + st.minute
    IN  IF today <= t THEN today + DayLen ELSE today

\* _run_loop, line 86: wait_seconds; and a wait that is a minute short.
wait_seconds_short(tgt, t) == tgt - t - 1
wait_seconds(tgt, t) == tgt - t

\* self._thread.is_alive(): the thread was started and has not ended, by
\* leaving the loop ("exited") or by an exception it did not catch ("crashed").
Alive == loop_pc \notin {"none", "exited", "crashed"}

\* A start that does not look at the thread it has.
start_unguarded ==
    /\ ctl_pc = "ready"
    /\ stop_event' = FALSE
    /\ loop_pc' = "started"
    /\ threads' = IF threads < 2 THEN threads + 1 ELSE threads
    /\ last_call' = "start"
    /\ UNCHANGED <<now, schedule_file, state, target, remaining, ctl_pc, fires,
                   last_fire>>
    /\ UNCHANGED <<lvars, tvars, config>>

\* DailyScheduler.start: nothing when the loop thread is alive; else the stop
\* event is cleared and a thread running _run_loop is started.
start ==
    /\ ctl_pc = "ready"
    /\ IF Alive
       THEN UNCHANGED <<stop_event, loop_pc, threads>>
       ELSE /\ stop_event' = FALSE
            /\ loop_pc' = "started"
            /\ threads' = threads + 1
    /\ last_call' = "start"
    /\ UNCHANGED <<now, schedule_file, state, target, remaining, ctl_pc, fires,
                   last_fire>>
    /\ UNCHANGED <<lvars, tvars, config>>

\* DailyScheduler.stop: the stop event is set, then join(timeout=1) when the
\* thread is alive.
stop ==
    /\ ctl_pc = "ready"
    /\ stop_event' = TRUE
    /\ ctl_pc' = IF Alive THEN "joining" ELSE "ready"
    /\ last_call' = "stop"
    /\ UNCHANGED <<now, schedule_file, loop_pc, state, target, remaining, fires,
                   last_fire, threads>>
    /\ UNCHANGED <<lvars, tvars, config>>

\* join(timeout=1) returns: the thread has ended, or the second has passed
\* while the thread is still inside the job.
join_returns ==
    /\ ctl_pc = "joining"
    /\ ~Alive \/ loop_pc = "job"
    /\ ctl_pc' = "ready"
    /\ UNCHANGED <<now, schedule_file, stop_event, loop_pc, state, target,
                   remaining, fires, last_fire, threads, last_call>>
    /\ UNCHANGED <<lvars, tvars, config>>

\* _run_loop, line 79: state = self.load_state().
run_loop_load ==
    /\ loop_pc = "started"
    /\ state' = load_state(schedule_file)
    /\ loop_pc' = "top"
    /\ UNCHANGED <<now, schedule_file, stop_event, target, remaining, ctl_pc,
                   fires, last_fire, threads, last_call>>
    /\ UNCHANGED <<lvars, tvars, config>>

\* The loop head that does not look at the stop event.
run_loop_top_deaf ==
    /\ loop_pc \in {"top", "raised"}
    /\ target' = next_target(state, now)
    /\ remaining' = wait_seconds(target', now)
    /\ loop_pc' = "waiting"
    /\ UNCHANGED <<now, schedule_file, stop_event, state, ctl_pc, fires, last_fire,
                   threads, last_call>>
    /\ UNCHANGED <<lvars, tvars, config>>

\* _run_loop, lines 81-88: the loop condition, the target and the start of the
\* wait; reached from the end of the try block ("top") or from the except
\* clause, which logs the failure ("raised").  now.replace (line 83) is outside
\* the try block: the ValueError it raises for an hour or a minute out of range
\* ends the thread.
run_loop_top ==
    /\ loop_pc \in {"top", "raised"}
    /\ IF stop_event
       THEN /\ loop_pc' = "exited"
            /\ threads' = threads - 1
            /\ UNCHANGED <<target, remaining>>
       ELSE IF ~InRange(state)
       THEN /\ loop_pc' = "crashed"
            /\ threads' = threads - 1
            /\ UNCHANGED <<target, remaining>>
       ELSE /\ target' = next_target(state, now)
            /\ remaining' = wait_seconds(target', now)
            /\ loop_pc' = "waiting"
            /\ UNCHANGED threads
    /\ UNCHANGED <<now, schedule_file, stop_event, state, ctl_pc, fires, last_fire,
                   last_call>>
    /\ UNCHANGED <<lvars, tvars, config>>

\* The end of a wait by the stop event that goes on to the job.
run_loop_stopped_fires ==
    /\ loop_pc = "waiting"
    /\ stop_event
    /\ loop_pc' = "job"
    /\ fires' = IF fires > 0 /\ last_fire = Day(now) THEN 2 ELSE 1
    /\ last_fire' = Day(now)
    /\ UNCHANGED <<now, schedule_file, stop_event, state, target, remaining,
                   ctl_pc, threads, last_call>>
    /\ UNCHANGED <<lvars, tvars, config>>

\* _run_loop, lines 88-90: the wait ends by the stop event; the loop breaks.
run_loop_stopped ==
    /\ loop_pc = "waiting"
    /\ stop_event
    /\ loop_pc' = "exited"
    /\ threads' = threads - 1
    /\ UNCHANGED <<now, schedule_file, stop_event, state, target, remaining,
                   ctl_pc, fires, last_fire, last_call>>
    /\ UNCHANGED <<lvars, tvars, config>>

\* _run_loop, lines 88-92: the wait elapses and the job is invoked.
run_loop_fire ==
    /\ loop_pc = "waiting"
    /\ ~stop_event
    /\ remaining <= 0
    /\ loop_pc' = "job"
    /\ fires' = IF fires > 0 /\ last_fire = Day(now) THEN 2 ELSE 1
    /\ last_fire' = Day(now)
    /\ UNCHANGED <<now, schedule_file, stop_event, state, target, remaining,
                   ctl_pc, threads, last_call>>
    /\ UNCHANGED <<lvars, tvars, config>>

\* _run_loop, line 92: self._callback() returns.
job_returns ==
    /\ loop_pc = "job"
    /\ loop_pc' = "returned"
    /\ UNCHANGED <<now, schedule_file, stop_event, state, target, remaining,
                   ctl_pc, fires, last_fire, threads, last_call>>
    /\ UNCHANGED <<lvars, tvars, config>>

\* _run_loop, lines 93-94: last_run is set and the state saved.
run_loop_record ==
    /\ loop_pc = "returned"
    /\ state' = [state EXCEPT !.last_run = Num(now)]
    /\ schedule_file' = save_state(state')
    /\ loop_pc' = "top"
    /\ UNCHANGED <<now, stop_event, target, remaining, ctl_pc, fires, last_fire, threads, last_call>>
    /\ UNCHANGED <<lvars, tvars, config>>

\* A job that raises, with last_run set and the state saved all the same.
job_raises_recorded ==
    /\ loop_pc = "job"
    /\ state' = [state EXCEPT !.last_run = Num(now)]
    /\ schedule_file' = save_state(state')
    /\ loop_pc' = "raised"
    /\ UNCHANGED <<now, stop_event, target, remaining, ctl_pc, fires, last_fire, threads, last_call>>
    /\ UNCHANGED <<lvars, tvars, config>>

\* _run_loop, lines 92 and 95: self._callback() raises an Exception, which the
\* except clause catches.
job_raises ==
    /\ loop_pc = "job"
    /\ loop_pc' = "raised"
    /\ UNCHANGED <<now, schedule_file, stop_event, state, target, remaining,
                   ctl_pc, fires, last_fire, threads, last_call>>
    /\ UNCHANGED <<lvars, tvars, config>>

\* The process ends and the command is run again: the memory of the process is
\* lost, the schedule file and the clock are not.
Restart ==
    /\ loop_pc # "none"
    /\ loop_pc' = "none"
    /\ stop_event' = FALSE
    /\ ctl_pc' = "ready"
    /\ state' = ScheduleState(0, 0, NoneNum)
    /\ target' = 0
    /\ remaining' = 0
    /\ threads' = 0
    /\ last_call' = "none"
    /\ UNCHANGED <<now, schedule_file, fires, last_fire>>
    /\ UNCHANGED <<lvars, tvars, config>>

\* The clock is in minutes, and moves only while the loop thread is blocked in
\* its wait or is not running: a wait that has elapsed or was interrupted is
\* over, a job that was invoked has ended (its network calls time out within the
\* minute) and the loop has dealt with its outcome and computed its next target,
\* before the clock moves again.
WaitOver ==
    \/ loop_pc = "waiting" /\ (remaining <= 0 \/ stop_event)
    \/ loop_pc \in {"started", "top", "job", "returned", "raised"}

\* A minute passes: the wall clock and the timer of the wait advance together.
Tick ==
    /\ now < Horizon
    /\ ~WaitOver
    /\ now' = now + 1
    /\ remaining' = IF loop_pc = "waiting" /\ remaining > 0 THEN remaining - 1
                    ELSE remaining
    /\ UNCHANGED <<schedule_file, stop_event, loop_pc, state, target, ctl_pc,
                   fires, last_fire, threads, last_call>>
    /\ UNCHANGED <<lvars, tvars, config>>

\* The wall clock steps forward by k minutes (the machine was suspended, the
\* clock was set).  A wait timed on the monotonic clock does not see the step;
\* a wait timed on an absolute wall-clock deadline does.
ClockJump(k, seen) ==
    /\ now + k <= Horizon
    /\ ~WaitOver
    /\ now' = now + k
    /\ remaining' = IF loop_pc = "waiting" /\ seen
                    THEN (IF remaining > k THEN remaining - k ELSE 0)
                    ELSE remaining
    /\ UNCHANGED <<schedule_file, stop_event, loop_pc, state, target, ctl_pc,
                   fires, last_fire, threads, last_call>>
    /\ UNCHANGED <<lvars, tvars, config>>

SchedInit ==
    /\ now = 0
    /\ schedule_file = NoScheduleFile
    /\ stop_event = FALSE
    /\ loop_pc = "none"
    /\ state = ScheduleState(0, 0, NoneNum)
    /\ target = 0
    /\ remaining = 0
    /\ ctl_pc = "ready"
    /\ fires = 0
    /\ last_fire = 0
    /\ threads = 0
    /\ last_call = "none"

\* A schedule file left on the disk before the scheduler is started.
WriteScheduleFile(content) ==
    /\ loop_pc = "none"
    /\ schedule_file # content
    /\ schedule_file' = content
    /\ UNCHANGED <<now, stop_event, loop_pc, state, target, remaining, ctl_pc,
                   fires, last_fire, threads, last_call>>
    /\ UNCHANGED <<lvars, tvars, config>>

\* The scheduler under every configuration of the environment and every
\* schedule file, on a clock that ticks.
SchedFileNext ==
    \/ start
    \/ stop
    \/ join_returns
    \/ run_loop_load
    \/ run_loop_top
    \/ run_loop_stopped
    \/ run_loop_fire
    \/ job_returns
    \/ run_loop_record
    \/ job_raises
    \/ Restart
    \/ Tick
    \/ \E content \in ScheduleFiles : WriteScheduleFile(content)

SchedNext ==
    \/ start
    \/ stop
    \/ join_returns
    \/ run_loop_load
    \/ run_loop_top
    \/ run_loop_stopped
    \/ run_loop_fire
    \/ job_returns
    \/ run_loop_record
    \/ job_raises
    \/ Restart
    \/ Tick
    \/ \E k \in 1 .. MaxJump, seen \in BOOLEAN : ClockJump(k, seen)

(***************************************************************************)
(*                             THE COMMANDS                                *)
(***************************************************************************)

\* What get_client_id() (and --client-id) yield: os.environ.get is None when the
\* variable is not set.
ClientIds == {None, CLIENT_ID}

\* Answers of the token endpoint that are well-formed JSON but no token
\* response: an object whose access_token is null, and a value that is no
\* object.
MalformedResponses ==
    [kind : {"json"}, access_token : {None},
     refresh_token : {Absent} \cup RefreshTokens,
     expires_in : {NoneNum, Num(MaxExpiresIn)}, scope : {Absent}]
    \cup {NoAnswer("not_object")}

\* The answers the commands are run against: the failures, and the token
\* responses with no scope and with an expires_in that is missing or positive.
Answers(grant) ==
    {resp \in Responses(grant) :
        resp.scope = Absent /\ resp.expires_in \in {NoneNum, Num(MaxExpiresIn)}}

\* A command that ended at once with exit status `status`.
Exited(op, client_id, error, status) ==
    [NoOp(op) EXCEPT !.raised = TRUE, !.error = error, !.client_id = client_id,
                     !.exit = status]

\* cmd_authorize: exit status 1 when there is no client id; else the
\* authorization URL is opened and wait_for_callback is called, which raises
\* TimeoutError (CallbackHandler.result is None on every path): exit status 2.
cmd_authorize(client_id) ==
    /\ last' = IF Falsy(client_id)
               THEN Exited("cmd_authorize", client_id, "SystemExit", 1)
               ELSE Exited("cmd_authorize", client_id, "TimeoutError", 2)
    /\ UNCHANGED <<time, passphrase, cred_file>>
    /\ UNCHANGED <<lvars, svars>>

\* cmd_signin: a missing client id is reported and the command goes on with
\* client id ""; _ensure_credentials, exit status 1 when it raises; else the
\* sign-in request is sent (perform_sign_in), which may raise.
cmd_signin(client_id, resp, signed) ==
    LET e == ensure_credentials(resp)
    IN  /\ cred_file' = e.file
        /\ last' = [e.out EXCEPT
                       !.op = "cmd_signin",
                       !.client_id = client_id,
                       !.signed_in = ~e.out.raised,
                       !.exit = IF e.out.raised \/ ~signed THEN 1 ELSE 0]
        /\ UNCHANGED <<time, passphrase>>
        /\ UNCHANGED <<lvars, svars>>

\* cmd_schedule: a missing client id is reported and the command goes on with
\* client id ""; a DailyScheduler is made and started, and the command sleeps.
cmd_schedule(client_id) ==
    /\ loop_pc = "none"
    /\ stop_event' = FALSE
    /\ loop_pc' = "started"
    /\ threads' = 1
    /\ last_call' = "start"
    /\ last' = [NoOp("cmd_schedule") EXCEPT !.client_id = client_id,
                                            !.started = TRUE]
    /\ UNCHANGED <<time, passphrase, cred_file>>
    /\ UNCHANGED <<now, schedule_file, state, target, remaining, ctl_pc, fires,
                   last_fire, config>>
    /\ UNCHANGED lvars

CmdNext ==
    \/ \E client_id \in ClientIds : cmd_authorize(client_id)
    \/ \E client_id \in ClientIds, resp \in Answers("refresh_token"),
          signed \in BOOLEAN : cmd_signin(client_id, resp, signed)
    \/ \E client_id \in ClientIds : cmd_schedule(client_id)
    \/ \E resp \in Answers("authorization_code") \cup MalformedResponses :
          ExchangeCode(resp)
    \/ TimePasses
    \/ Restart

(***************************************************************************)
(*                          THE SPECIFICATIONS                             *)
(***************************************************************************)

Init == ListenerInit /\ TokenInit /\ SchedInit /\ config = DefaultConfig

\* The callback listener.
Next == ListenerNext
Spec == Init /\ [][Next]_vars
\* The caller's thread and the clock of event.wait make progress.
FairSpec == Spec /\ WF_vars(WaitTick) /\ WF_vars(wait_for_callback_end)

\* The token lifecycle.
TokenSpec == Init /\ [][TokenNext]_vars

\* The scheduler.
SchedSpecInit == ListenerInit /\ TokenInit /\ SchedInit /\ config \in ScheduleConfigs
SchedSpec == SchedSpecInit /\ [][SchedNext]_vars
\* The scheduler under every configuration and schedule file.
SchedFileInit == ListenerInit /\ TokenInit /\ SchedInit /\ config \in EnvConfigs
SchedFileSpec == SchedFileInit /\ [][SchedFileNext]_vars
\* A step of the thread that runs _run_loop; the thread is at one place at a
\* time, and a job ends.
_run_loop ==
    \/ run_loop_load
    \/ run_loop_top
    \/ run_loop_stopped
    \/ run_loop_fire
    \/ job_returns
    \/ run_loop_record
    \/ job_raises
\* The loop thread and the clock make progress, and a join returns.
SchedFairSpec ==
    /\ SchedSpec
    /\ WF_vars(Tick)
    /\ WF_vars(_run_loop)
    /\ WF_vars(join_returns)

\* The credential store: save, load and is_expired on every record, passphrase
\* and file content.
StoreSpec == Init /\ [][StoreNext]_vars

\* The commands, and exchange_code on every answer of the token endpoint.
CmdSpec == Init /\ [][CmdNext]_vars

(***************************************************************************)
(*                              THE CLAIMS                                 *)
(***************************************************************************)

Done == wfc_pc \in {"returned", "raised"}
ServedRequest(i) == replies[i][1]
ServedStatus(i) == replies[i][2]
\* A GET to /callback with a non-empty code and the expected state.
ValidCallback(req) ==
    /\ req.path = "/callback"
    /\ parse_qs_get(req.code) # None
    /\ parse_qs_get(req.state) = expected_state

\* C1: once wait_for_callback has ended, if a valid callback (non-empty code C,
\* state equal to S) was served while it waited, it has returned the
\* AuthorizationResult with code C and state S, and has not raised TimeoutError.
C1_ValidCallbackReturnsResult ==
    \A i \in 1 .. Len(replies) :
        (Done /\ ValidCallback(ServedRequest(i)))
            => /\ wfc_pc = "returned"
               /\ wfc_ret.code = ServedRequest(i).code
               /\ wfc_ret.state = expected_state

C6_ValidAfterRejectedCompletes ==
    (/\ Done
     /\ Len(replies) >= 1
     /\ ServedStatus(1) # HTTP_OK
     /\ \/ \E i \in 1 .. Len(backlog) : ValidCallback(backlog[i])
        \/ \E i \in 2 .. Len(replies) : ValidCallback(ServedRequest(i)))
        => /\ event = "set"
           /\ \E i \in 2 .. Len(replies) :
                 ValidCallback(ServedRequest(i)) /\ ServedStatus(i) = HTTP_OK

\* C7: wait_for_callback always ends; when no valid callback was served it ends by
\* raising TimeoutError, with no result, once the timeout has elapsed.
C7_TimesOut ==
    /\ (wfc_pc = "waiting") ~> Done
    /\ [](Done /\ (\A i \in 1 .. Len(replies) : ~ValidCallback(ServedRequest(i)))
             => /\ wfc_pc = "raised"
                /\ wfc_ret = NoResult
                /\ elapsed = TimeoutTicks)
\* TimeoutError after the timeout, invalid requests having been served meanwhile
C7_Witness ==
    /\ wfc_pc = "raised"
    /\ elapsed = TimeoutTicks
    /\ Len(replies) >= 1
    /\ \A i \in 1 .. Len(replies) : ServedStatus(i) # HTTP_OK

\* C8: once wait_for_callback has ended, by a return or by TimeoutError, the
\* listening socket it opened is closed.
C8_SocketClosedOnExit == Done => server = "closed"
\* the timeout path: TimeoutError with the event never set, socket closed
C8_Witness == wfc_pc = "raised" /\ event = "clear" /\ server = "closed"

ExchangedOk == last.op = "exchange_code" /\ ~last.raised
EnsuredOk == last.op = "_ensure_credentials" /\ ~last.raised
RefreshedOk == EnsuredOk /\ last.refreshed
Stored == load(cred_file, passphrase)

C10_ExpiresAtFromExpiresIn ==
    (ExchangedOk \/ RefreshedOk)
        => IF last.resp.expires_in.t = "num"
           THEN last.ret.expires_at = Num(time + last.resp.expires_in.v)
           ELSE last.ret.expires_at = NoneNum

\* C3: the job is invoked at most once on any local calendar day.
C3_AtMostOncePerDay == fires <= 1

C11_MalformedExchangeFails ==
    (/\ last.op = "exchange_code"
     /\ \/ last.resp.kind # "json"
        \/ last.resp.access_token \in {Absent, None})
        => /\ last.raised
           /\ last.ret = NoRecord
           /\ ~last.changed

\* C12: when refresh is called on a record whose refresh_token is absent (the
\* helper loaded an expired record with no refresh token), it raises the
\* RuntimeError of line 132 and the helper fails with it; the token endpoint was
\* sent no request, and the record object and the credentials file are as they
\* were.
C12_MissingRefreshTokenFails ==
    (last.op = "_ensure_credentials" /\ last.refreshed
        /\ Falsy(last.arg.refresh_token))
        => /\ last.raised
           /\ last.error = "RuntimeError"
           /\ last.ret = NoRecord
           /\ ~last.asked
           /\ last.mem = last.arg
           /\ ~last.changed
           /\ Stored = [tag |-> "record", rec |-> last.arg]
\* the helper failed on an expired record with no refresh token, although the
\* token endpoint would have answered with a new access token and refresh token
C12_Witness ==
    /\ last.op = "_ensure_credentials"
    /\ last.refreshed
    /\ last.arg.refresh_token = None
    /\ last.arg.access_token = IssuedBy("authorization_code")
    /\ last.error = "RuntimeError"
    /\ last.resp.kind = "json"
    /\ last.resp.access_token = IssuedBy("refresh_token")
    /\ last.resp.refresh_token \in RefreshTokens

\* The credentials file holds nothing load can make a record of.
Malformed ==
    \/ ~cred_file.exists
    \/ _decode(cred_file, passphrase).tag # "text"
    \/ _decode(cred_file, passphrase).text.kind # "json"
    \/ "access_token" \notin DOMAIN _decode(cred_file, passphrase).text.value

\* The loop of _run_loop is running: `state` is its local variable.
InLoop == loop_pc \in {"top", "waiting", "job", "returned", "raised"}

\* C13: the persisted last_run changes only in the step of the loop that follows
\* the return of the job (never while the job is executing, never after the job
\* raised), and so does the last_run of the running loop; both are then the
\* time of that step.
C13_LastRunOnlyAfterSuccess ==
    [][/\ schedule_file' # schedule_file
          => /\ loop_pc = "returned"
             /\ schedule_file'.payload.last_run = Num(now)
       /\ (InLoop /\ loop_pc' # "none" /\ state'.last_run # state.last_run)
          => /\ loop_pc = "returned"
             /\ state'.last_run = Num(now)
       /\ loop_pc \in {"job", "raised"}
          => (loop_pc' = "none" \/ state' = state) /\ schedule_file' = schedule_file
      ]_vars
\* a job has raised on a later day than the one whose job returned: last_run, in
\* memory and persisted, is still the time of the earlier job
C13_Witness ==
    /\ loop_pc = "raised"
    /\ state.last_run.t = "num"
    /\ Day(state.last_run.v) < last_fire
    /\ schedule_file.exists
    /\ schedule_file.payload.last_run = state.last_run

\* C14: after the job raised, the loop goes on: unless it is stopped or the
\* process ends, its next step from the except clause starts a wait that is not
\* over, for hour:minute of the calendar day after the day of the failed
\* invocation.
C14_RetryNextDay ==
    [][loop_pc = "raised"
          => \/ loop_pc' = "raised"
             \/ loop_pc' = "none"
             \/ stop_event /\ loop_pc' = "exited"
             \/ /\ loop_pc' = "waiting"
                /\ remaining' > 0
                /\ target' = (last_fire + 1) * DayLen
                                + state.hour * MinutesPerHour + state.minute
      ]_vars

\* C15: when the stop event is set while the loop waits, the loop leaves the
\* wait only to exit: the job is not invoked and the schedule file is not
\* written; and it does exit.
C15_StopDuringWait ==
    /\ [][(loop_pc = "waiting" /\ stop_event)
             => /\ loop_pc' \in {"waiting", "exited", "none"}
                /\ schedule_file' = schedule_file
                /\ fires' = fires
                /\ last_fire' = last_fire
         ]_vars
    /\ (loop_pc = "waiting" /\ stop_event) ~> (loop_pc \in {"exited", "none"})
\* the loop has exited out of a wait that was not over, on a later day than its
\* first job
C15_Witness ==
    /\ loop_pc = "exited"
    /\ stop_event
    /\ remaining > 0
    /\ target > now
    /\ fires = 1
    /\ schedule_file.exists

\* C16: once the stop event is set the loop ends, and starts no wait from the
\* loop head; stop() returns, also when a job is still running; stop() on a
\* scheduler that is not running changes nothing but the stop event and returns
\* at once.
C16_StopTerminates ==
    /\ stop_event ~> (loop_pc \in {"none", "exited"})
    /\ [][(stop_event /\ loop_pc \in {"top", "raised"}) => loop_pc' # "waiting"]_vars
    /\ (ctl_pc = "joining") ~> (ctl_pc = "ready")
    /\ [][(~Alive /\ stop_event' # stop_event /\ stop_event')
             => UNCHANGED <<now, schedule_file, loop_pc, state, target, remaining,
                            ctl_pc, fires, last_fire>>
         ]_vars
\* stop() has returned while the job is still running
C16_Witness ==
    /\ ctl_pc = "ready"
    /\ stop_event
    /\ loop_pc = "job"

\* C17: load() has not raised, and has yielded no record when the file is
\* missing or malformed (bytes that do not decode under the passphrase, text that
\* is not JSON, JSON that is no object or has no access_token).
C17_LoadNeverRaises ==
    last.op = "cmd_status"
        => /\ ~last.raised
           /\ Malformed => last.ret = NoRecord

\* C18: _decode undoes _encode under every passphrase, for the payload of every
\* record; and right after save(r), load() with the same passphrase yields r,
\* whatever the file held before.
C18_RoundTrip ==
    /\ \A p \in Passphrases, r \in Records :
          _decode(_encode(json_dumps(to_payload(r)), p), p)
              = [tag |-> "text", text |-> json_dumps(to_payload(r))]
    /\ last.op = "save" => Stored = [tag |-> "record", rec |-> last.ret]
\* a record with fields that are None was saved under a passphrase over a record
\* that had them, and the file is masked
C18_Witness ==
    /\ last.op = "save"
    /\ passphrase # ""
    /\ cred_file.mask # {}
    /\ last.before.refresh_token # None /\ last.ret.refresh_token = None
    /\ last.before.expires_at # NoneNum /\ last.ret.expires_at = NoneNum
    /\ last.before.scope # None /\ last.ret.scope = None

\* C19: is_expired of a loaded record is false when expires_at is absent, true
\* when expires_at <= now (equality included) and false when expires_at > now.
C19_IsExpired ==
    (last.op = "cmd_status" /\ Stored.tag = "record")
        => /\ last.ret.expires_at = NoneNum => ~last.expired
           /\ (last.ret.expires_at # NoneNum /\ last.ret.expires_at.v <= time)
                 => last.expired
           /\ (last.ret.expires_at # NoneNum /\ last.ret.expires_at.v > time)
                 => ~last.expired
\* is_expired was true of a record whose expires_at is the current time
C19_Witness ==
    /\ last.op = "cmd_status"
    /\ Stored.tag = "record"
    /\ last.ret.expires_at = Num(time)
    /\ time > 0
    /\ last.expired

\* C20: a command that needs the client id (authorize, signin, schedule) and
\* found none has ended with a non-zero exit status, the token endpoint was sent
\* no request, the sign-in request was not sent and the scheduler was not
\* started.
C20_MissingClientIdFatal ==
    (/\ last.op \in {"cmd_authorize", "cmd_signin", "cmd_schedule"}
     /\ Falsy(last.client_id))
        => /\ last.exit # 0
           /\ ~last.asked
           /\ ~last.signed_in
           /\ ~last.started

\* C23: right after a refresh that returned, the record differs from the record
\* passed in at most in access_token, refresh_token, expires_at and scope:
\* client_id is as it was, access_token is the one of the response, and
\* refresh_token and scope are as they were when the response has none.
C23_RefreshFrame ==
    RefreshedOk
        => /\ last.ret.client_id = last.arg.client_id
           /\ last.ret.access_token = last.resp.access_token
           /\ last.ret.refresh_token
                 = GetDefault(last.resp, "refresh_token", last.arg.refresh_token)
           /\ last.ret.scope = GetDefault(last.resp, "scope", last.arg.scope)
           /\ last.mem = last.ret
\* a refresh returned on a response with no refresh_token and no scope, for a
\* record that had both
C23_Witness ==
    /\ RefreshedOk
    /\ last.resp.refresh_token = Absent
    /\ last.resp.scope = Absent
    /\ last.arg.refresh_token \in RefreshTokens
    /\ last.arg.scope \in Scopes
    /\ last.ret.access_token # last.arg.access_token

\* C28: when refresh has raised, the record object passed to it and the
\* credentials file are as they were before the call.
C28_FailedRefreshChangesNothing ==
    (last.op = "_ensure_credentials" /\ last.refreshed /\ last.raised)
        => /\ last.mem = last.arg
           /\ ~last.changed

\* What load_state is to return for the schedule file as it is.
LoadedOrDefaults ==
    IF schedule_file.exists /\ schedule_file.kind = "json"
    THEN schedule_file.payload
    ELSE ScheduleState(config.hour, config.minute, NoneNum)

\* C21: the step of the loop thread that follows its start loads the state and
\* goes on to the head of the loop; the state is the content of the schedule
\* file when there is one and it decodes, and else the configured hour and
\* minute with no last_run.
C21_StateFromFileOrDefaults ==
    [][loop_pc = "started" /\ loop_pc' \notin {"started", "none"}
          => /\ loop_pc' = "top"
             /\ state' = LoadedOrDefaults]_vars
\* the loop waits for the configured hour:minute with an undecodable file on
\* the disk
C21_Witness ==
    /\ loop_pc = "waiting"
    /\ schedule_file.exists
    /\ schedule_file.kind # "json"
    /\ state = ScheduleState(config.hour, config.minute, NoneNum)
    /\ state # schedule_file.payload

\* C22: the target the loop computes is today at hour:minute when that is
\* strictly after now, else the next day at hour:minute; it is strictly after
\* now and at most one day after now.
C22_TargetNextOccurrence ==
    [][loop_pc # "waiting" /\ loop_pc' = "waiting"
          => LET today == Day(now) * DayLen + state.hour * MinutesPerHour
                             + state.minute
             IN  /\ target' = IF today > now THEN today ELSE today + DayLen
                 /\ target' > now
                 /\ target' <= now + DayLen]_vars
\* a target computed at hour:minute sharp: the next day's
C22_Witness ==
    /\ loop_pc = "waiting"
    /\ target = now + DayLen
    /\ remaining = DayLen
    /\ now = Day(now) * DayLen + state.hour * MinutesPerHour + state.minute

\* C24: the hour and the minute of the state of a running loop are an hour of
\* the day and a minute of the hour, and the loop thread never ends by the
\* exception of the target computation.
C24_HourMinuteInRange ==
    /\ InLoop => InRange(state)
    /\ loop_pc # "crashed"

\* C25: at most one thread running _run_loop is alive.
C25_OneLoopThread == threads <= 1
\* start was called after a stop whose join timed out on a running job
C25_Witness ==
    /\ last_call = "start"
    /\ ctl_pc = "ready"
    /\ stop_event
    /\ loop_pc = "job"
    /\ threads = 1

\* C26: when the latest call of the controlling thread is a start that has
\* returned, the stop event is clear and the loop thread is alive.
C26_StartNotLost ==
    (last_call = "start" /\ ctl_pc = "ready") => (~stop_event /\ Alive)

\* C27: the hour and the minute of the state of a running loop never change;
\* what the loop writes to the schedule file is that hour, that minute and the
\* last_run of the state; the target does not depend on last_run.
C27_FireChangesOnlyLastRun ==
    /\ [][InLoop /\ loop_pc' # "none"
            => state'.hour = state.hour /\ state'.minute = state.minute]_vars
    /\ [][InLoop /\ schedule_file' # schedule_file
            => /\ schedule_file'.exists
               /\ schedule_file'.kind = "json"
               /\ schedule_file'.payload.hour = state.hour
               /\ schedule_file'.payload.minute = state.minute
               /\ schedule_file'.payload.last_run = state'.last_run]_vars
    /\ [](InLoop /\ InRange(state)
            => \A lr \in {NoneNum} \cup {Num(t) : t \in 0 .. Horizon} :
                  next_target([state EXCEPT !.last_run = lr], now)
                     = next_target(state, now))
\* the loop has recorded a fire in a state loaded from a file whose hour and
\* minute are not the configured ones
C27_Witness ==
    /\ loop_pc = "waiting"
    /\ state.last_run # NoneNum
    /\ schedule_file.payload = state
    /\ <<state.hour, state.minute>> # <<config.hour, config.minute>>
====
